---- MODULE Spec2Model ----
(***************************************************************************)
(* Model of build-disk-image.py: the command-line entry point (__main__),  *)
(* get_os_loaders, new_efi_boot_disk, create_partitions,                   *)
(* fill_boot_partition and fill_ext4_partition.                            *)
(*                                                                         *)
(* Every external tool invocation and every Python call that can raise is  *)
(* one step whose outcome (success / failure) is chosen by the             *)
(* environment.  A Python exception in flight is a sequence: its head is   *)
(* the exception that propagates, its tail the __context__ chain.          *)
(***************************************************************************)
EXTENDS Integers, Sequences, FiniteSets, TLC

\* ------------------------------------------------------------------ bounds
MaxDiskSize == 3
MaxEfiSize == 1
MaxOutDirs == 2
MaxInvocations == 2

\* --------------------------------------------------------------- constants
None == "None"
EFI_UUID == "DEADBEEF"
EXT4_UUID == "F59E7ACA-1868-4E4D-B34D-9087DDA43174"
ArchChoices == {"x86_64", "arm64"}
ArchValues == ArchChoices \cup {"riscv64"}
DefaultTargetFormat == "vhdx"

VARIABLES
    pc,             \* position in the program
    caller,         \* "cli": run as a script; "api": new_efi_boot_disk called directly
    verbose,        \* args.verbose
    arch, disk_size_mib, efi_size_mib, target_image, target_format,
    os_loader,      \* args.os_loader / the os_loader parameter
    out_tree,       \* the directories os.walk visited under out/ (files of each)
    image_exists,   \* a file exists at image_path
    image_size,     \* the size this call requested from fallocate, <<n, "MiB">>
    preexisting,    \* the file at image_path was there when this call began
    loop_attached,  \* a loop device this call attached is bound to the image
    partitions,     \* mkpart requests issued to parted
    fsinfo,         \* filesystem type / identifier of each partition
    mount_dirs,     \* temporary mount directories that exist
    mounted,        \* temporary mount directories with a live mount
    efi_files,      \* paths created on the EFI partition
    layers_dir,     \* "unknown" until line 111 looked; then "missing" or "present"
    layers_seen,    \* the archives rglob returned
    layers,         \* sorted archives still to be visited by the extraction loop
    found,          \* the `found` flag of fill_ext4_partition
    extracted,      \* archives extracted into the root partition, in order
    converted,      \* the converted image was produced
    exc,            \* exception in flight: <<>> or <<propagating, context...>>
    diagnostics,    \* error messages logged by __main__
    exit_status,    \* None until the process ended
    trace,          \* every step of the current invocation so far, as [op, ok]
    invocation,     \* number of the current call of the build, from 1
    prev            \* how the previous call ended: its trace, exception, image file

inputs == <<caller, verbose, arch, disk_size_mib, efi_size_mib, target_image,
            target_format>>
disk == <<image_exists, image_size, preexisting, partitions, fsinfo, converted>>
mounts == <<mount_dirs, mounted>>
rootfs == <<layers_dir, layers_seen, layers, found, extracted>>
cli == <<diagnostics, exit_status>>
calls == <<invocation, prev>>
vars == <<pc, inputs, calls, os_loader, out_tree, disk, loop_attached, mounts, efi_files,
          rootfs, exc, cli, trace>>

\* ----------------------------------------------------------------- helpers
Range(s) == {s[i] : i \in 1..Len(s)}

\* Python truthiness of an optional string argument.
Truthy(v) == v \notin {None, ""}

\* Paths are sequences of components; the absent --os-loader is the empty one.
NoLoader == <<>>

\* `raise X` while exception chain e is being handled: X propagates, e becomes
\* its __context__.
Raise(x, e) == <<x>> \o e

Log(op, ok) == Append(trace, [op |-> op, ok |-> ok])

NoCall == [trace |-> <<>>, exc |-> <<>>, image_exists |-> FALSE]

NoFsInfo == [efi_type |-> None, efi_id |-> None, root_type |-> None, root_uuid |-> None]

\* ------------------------------------------------------------ get_os_loaders
\* The file name searched for, by architecture (lines 229-234).
LoaderName(a) == IF a = "x86_64" THEN <<"bzImage">> ELSE <<"Image">>

\* The loop of lines 235-238 over the directories of the walk, from index i on.
\* `name` is the local variable os_loader, which line 237 overwrites with the
\* joined path once a match is found.
RECURSIVE WalkOut(_, _, _, _)
WalkOut(tree, i, name, acc) ==
    IF i > Len(tree) THEN acc
    ELSE IF name \in tree[i].files
         THEN WalkOut(tree, i + 1, <<tree[i].root>> \o name,
                      Append(acc, <<tree[i].root>> \o name))
         ELSE WalkOut(tree, i + 1, name, acc)

get_os_loaders(tree, a) == WalkOut(tree, 1, LoaderName(a), <<>>)

OutDirNames == <<"out/x", "out/y", "out/z">>
\* Each directory visited holds the kernel image of one architecture.
OutFileSets == {{<<"bzImage">>}, {<<"Image">>}}
OutTrees ==
    UNION { [1..n -> OutFileSets] : n \in 0..MaxOutDirs }
MkTree(f) == [i \in 1..Len(f) |-> [root |-> OutDirNames[i], files |-> f[i]]]

\* ---------------------------------------------------------------------- Init
Init ==
    /\ caller \in {"cli", "api"}
    /\ arch \in ArchValues
    /\ disk_size_mib \in 0..MaxDiskSize
    /\ efi_size_mib \in 0..MaxEfiSize
    /\ IF caller = "cli"
       THEN /\ verbose \in BOOLEAN
            /\ os_loader \in {NoLoader, <<"loader.efi">>}
            /\ target_image \in {None, "disk.vhdx"}
            /\ target_format = DefaultTargetFormat
            /\ pc = "parse_args"
       ELSE /\ verbose = FALSE
            /\ os_loader = <<"loader.efi">>
            /\ target_image \in {None, "", "disk.vhdx"}
            /\ target_format \in {None, "", DefaultTargetFormat}
            /\ pc = "check_sizes"
    /\ out_tree = <<>>
    /\ image_exists \in BOOLEAN
    /\ preexisting = image_exists
    /\ image_size = <<>>
    /\ loop_attached = FALSE
    /\ partitions = <<>>
    /\ fsinfo = NoFsInfo
    /\ mount_dirs = {}
    /\ mounted = {}
    /\ efi_files = {}
    /\ layers_dir = "unknown"
    /\ layers_seen = {}
    /\ layers = <<>>
    /\ found = FALSE
    /\ extracted = <<>>
    /\ converted = FALSE
    /\ exc = <<>>
    /\ diagnostics = <<>>
    /\ exit_status = None
    /\ trace = <<>>
    /\ invocation = 1
    /\ prev = NoCall

\* ------------------------------------------------------------------ __main__
\* Where an exception leaving new_efi_boot_disk (or the loader discovery) goes:
\* the `except Exception` clause of the script, or the API caller.
Caught == IF caller = "cli" THEN "main_except" ELSE "raised"

\* Where a normal return of new_efi_boot_disk goes.
Returned == IF caller = "cli" THEN "main_end" ELSE "returned"

\* argparse: `arch` has choices x86_64 / arm64; anything else is a usage error
\* and parse_args() ends the process with status 2.
ParseArgs ==
    /\ pc = "parse_args"
    /\ IF arch \in ArchChoices
       THEN /\ pc' = "select_loader"
            /\ trace' = Log("parse_args", TRUE)
            /\ UNCHANGED cli
       ELSE /\ pc' = "exited"
            /\ trace' = Log("parse_args", FALSE)
            /\ diagnostics' = Append(diagnostics, <<"usage: invalid choice">>)
            /\ exit_status' = 2
    /\ UNCHANGED <<inputs, calls, os_loader, out_tree, disk, loop_attached, mounts,
                   efi_files, rootfs, exc>>

\* Lines 242-250: use --os-loader when given, else look the loader up under out/.
SelectLoader ==
    /\ pc = "select_loader"
    /\ \/ /\ os_loader /= NoLoader
          /\ pc' = "check_sizes"
          /\ UNCHANGED <<os_loader, out_tree, exc, trace>>
       \/ /\ os_loader = NoLoader
          /\ \E f \in OutTrees :
               LET tree == MkTree(f)
                   os_loaders == get_os_loaders(tree, arch)
               IN /\ out_tree' = tree
                  /\ IF os_loaders = <<>>
                     THEN /\ exc' = Raise("FileNotFoundError: OS loader not found", exc)
                          /\ pc' = "main_except"
                          /\ trace' = Log("get_os_loaders", FALSE)
                          /\ UNCHANGED os_loader
                     ELSE IF Len(os_loaders) > 1
                     THEN /\ exc' = Raise("FileExistsError: Multiple OS loaders found", exc)
                          /\ pc' = "main_except"
                          /\ trace' = Log("get_os_loaders", FALSE)
                          /\ UNCHANGED os_loader
                     ELSE /\ os_loader' = os_loaders[1]
                          /\ pc' = "check_sizes"
                          /\ trace' = Log("get_os_loaders", TRUE)
                          /\ UNCHANGED exc
    /\ UNCHANGED <<inputs, calls, disk, loop_attached, mounts, efi_files, rootfs, cli>>

\* Lines 261-265: every Exception is caught and logged (with the traceback,
\* which shows the __context__ chain, under --verbose); nothing is re-raised.
MainExcept ==
    /\ pc = "main_except"
    /\ diagnostics' = Append(diagnostics, IF verbose THEN exc ELSE <<exc[1]>>)
    /\ pc' = "main_end"
    /\ UNCHANGED <<inputs, calls, os_loader, out_tree, disk, loop_attached, mounts,
                   efi_files, rootfs, exc, exit_status, trace>>

\* The status the interpreter ends with when the script runs off its last line.
ScriptEndStatus == 0

\* End of the script: there is no sys.exit() call anywhere in the file.
MainEnd ==
    /\ pc = "main_end"
    /\ exit_status' = ScriptEndStatus
    /\ pc' = "exited"
    /\ UNCHANGED <<inputs, calls, os_loader, out_tree, disk, loop_attached, mounts,
                   efi_files, rootfs, exc, diagnostics, trace>>

\* -------------------------------------------------------- new_efi_boot_disk
\* Step with check=True left out: a failing tool is not noticed.
Step_NoCheck(here, op, ok, next, fail, err) ==
    /\ pc = here
    /\ trace' = Log(op, ok)
    /\ pc' = next
    /\ exc' = exc

\* One step that either succeeds and goes on, or raises `err`.
Step(here, op, ok, next, fail, err) ==
    /\ pc = here
    /\ trace' = Log(op, ok)
    /\ IF ok
       THEN pc' = next /\ exc' = exc
       ELSE pc' = fail /\ exc' = Raise(err, exc)

\* f"{n}MiB"
MiB(n) == <<n, "MiB">>

\* The end of the EFI partition without the 1 MiB it starts at.
efi_end_mib_NoOffset(e) == e

\* Line 141.
efi_end_mib(e) == 1 + e

\* The size check off by one MiB.
SizeRejected_OffByOne(d, e) == d <= e

\* Line 133: the size relationship that is refused.
SizeRejected(d, e) == d <= e + 1

\* The existence check left out.
PathRejected_Never(exists) == FALSE

\* Line 136: an existing path is refused.
PathRejected(exists) == exists

\* The try body without its finally clause: the exception leaves at once.
OnTryFailure_NoFinally == Caught

\* Where control goes when a statement of the try body (lines 164-179) raises:
\* the finally clause of lines 181-183.
OnTryFailure == "detach"

\* Lines 133-134.
CheckSizes ==
    /\ Step("check_sizes", "check_sizes", ~SizeRejected(disk_size_mib, efi_size_mib),
            "check_path", Caught,
            "ValueError: Disk size must be greater than EFI size plus 1 MiB")
    /\ UNCHANGED <<inputs, calls, os_loader, out_tree, disk, loop_attached, mounts,
                   efi_files, rootfs, cli>>

\* Lines 136-137.
CheckPath ==
    /\ Step("check_path", "check_path", ~PathRejected(image_exists),
            "fallocate", Caught, "FileExistsError: Disk image already exists")
    /\ UNCHANGED <<inputs, calls, os_loader, out_tree, disk, loop_attached, mounts,
                   efi_files, rootfs, cli>>

\* Lines 144-148.  A failing fallocate may or may not have created the file.
Allocate ==
    /\ pc = "fallocate"
    /\ \E ok \in BOOLEAN, created \in BOOLEAN :
         /\ trace' = Log("fallocate", ok)
         /\ IF ok
            THEN /\ image_exists' = TRUE
                 /\ image_size' = MiB(disk_size_mib)
                 /\ pc' = "losetup"
                 /\ exc' = exc
            ELSE /\ image_exists' = created
                 /\ UNCHANGED image_size
                 /\ pc' = Caught
                 /\ exc' = Raise("RuntimeError: Failed to create disk image",
                                 Raise("CalledProcessError: fallocate", exc))
    /\ UNCHANGED <<inputs, calls, os_loader, out_tree, preexisting, partitions, fsinfo,
                   converted, loop_attached, mounts, efi_files, rootfs, cli>>

\* Lines 150-161.
Attach ==
    /\ pc = "losetup"
    /\ \E ok \in BOOLEAN :
         /\ trace' = Log("losetup", ok)
         /\ IF ok
            THEN /\ loop_attached' = TRUE
                 /\ pc' = "mklabel"
                 /\ exc' = exc
            ELSE /\ UNCHANGED loop_attached
                 /\ pc' = Caught
                 /\ exc' = Raise("RuntimeError: Failed to set up loop device",
                                 Raise("CalledProcessError: losetup", exc))
    /\ UNCHANGED <<inputs, calls, os_loader, out_tree, disk, mounts, efi_files, rootfs, cli>>

\* ---------------------------------------------------------- create_partitions
\* Line 42.
Mklabel ==
    /\ \E ok \in BOOLEAN :
         Step("mklabel", "parted mklabel", ok, "mkpart_efi", OnTryFailure,
              "CalledProcessError: parted mklabel")
    /\ UNCHANGED <<inputs, calls, os_loader, out_tree, disk, loop_attached, mounts,
                   efi_files, rootfs, cli>>

\* Lines 45-48: the EFI partition from efi_start to efi_end_str.
MkpartEfi ==
    /\ \E ok \in BOOLEAN :
         /\ Step("mkpart_efi", "parted mkpart fat32", ok, "set_boot", OnTryFailure,
                 "CalledProcessError: parted mkpart fat32")
         /\ partitions' = IF ok
                          THEN Append(partitions, [fs |-> "fat32", start |-> MiB(1),
                                                   end |-> MiB(efi_end_mib(efi_size_mib))])
                          ELSE partitions
    /\ UNCHANGED <<inputs, calls, os_loader, out_tree, image_exists, image_size, preexisting,
                   fsinfo, converted, loop_attached, mounts, efi_files, rootfs, cli>>

\* Line 49.
SetBoot ==
    /\ \E ok \in BOOLEAN :
         Step("set_boot", "parted set boot", ok, "set_esp", OnTryFailure,
              "CalledProcessError: parted set boot")
    /\ UNCHANGED <<inputs, calls, os_loader, out_tree, disk, loop_attached, mounts,
                   efi_files, rootfs, cli>>

\* Line 50.
SetEsp ==
    /\ \E ok \in BOOLEAN :
         Step("set_esp", "parted set esp", ok, "mkpart_root", OnTryFailure,
              "CalledProcessError: parted set esp")
    /\ UNCHANGED <<inputs, calls, os_loader, out_tree, disk, loop_attached, mounts,
                   efi_files, rootfs, cli>>

\* Lines 53-56: the ext4 partition from efi_end_str to 100%.
MkpartRoot ==
    /\ \E ok \in BOOLEAN :
         /\ Step("mkpart_root", "parted mkpart ext4", ok, "check_part1", OnTryFailure,
                 "CalledProcessError: parted mkpart ext4")
         /\ partitions' = IF ok
                          THEN Append(partitions, [fs |-> "ext4",
                                                   start |-> MiB(efi_end_mib(efi_size_mib)),
                                                   end |-> <<100, "%">>])
                          ELSE partitions
    /\ UNCHANGED <<inputs, calls, os_loader, out_tree, image_exists, image_size, preexisting,
                   fsinfo, converted, loop_attached, mounts, efi_files, rootfs, cli>>

\* Lines 63-64: the node of partition 1 must have appeared after the sleep.
CheckPart1 ==
    /\ \E ok \in BOOLEAN :
         Step("check_part1", "exists p1", ok, "check_part2", OnTryFailure,
              "RuntimeError: Expected partition device p1 does not exist")
    /\ UNCHANGED <<inputs, calls, os_loader, out_tree, disk, loop_attached, mounts,
                   efi_files, rootfs, cli>>

\* Lines 65-66.
CheckPart2 ==
    /\ \E ok \in BOOLEAN :
         Step("check_part2", "exists p2", ok, "mkfs_fat", OnTryFailure,
              "RuntimeError: Expected partition device p2 does not exist")
    /\ UNCHANGED <<inputs, calls, os_loader, out_tree, disk, loop_attached, mounts,
                   efi_files, rootfs, cli>>

\* ------------------------------------------------------------------ formatting
\* mkfs.fat without -i: the volume id is whatever the tool picks.
MkfsFat_NoId ==
    /\ \E ok \in BOOLEAN :
         /\ Step("mkfs_fat", "mkfs.fat", ok, "mkfs_ext4", OnTryFailure,
                 "CalledProcessError: mkfs.fat")
         /\ fsinfo' = IF ok
                      THEN [fsinfo EXCEPT !.efi_type = "fat32", !.efi_id = "random"]
                      ELSE fsinfo
    /\ UNCHANGED <<inputs, calls, os_loader, out_tree, image_exists, image_size, preexisting,
                   partitions, converted, loop_attached, mounts, efi_files, rootfs, cli>>

\* Line 168.
MkfsFat ==
    /\ \E ok \in BOOLEAN :
         /\ Step("mkfs_fat", "mkfs.fat", ok, "mkfs_ext4", OnTryFailure,
                 "CalledProcessError: mkfs.fat")
         /\ fsinfo' = IF ok
                      THEN [fsinfo EXCEPT !.efi_type = "fat32", !.efi_id = EFI_UUID]
                      ELSE fsinfo
    /\ UNCHANGED <<inputs, calls, os_loader, out_tree, image_exists, image_size, preexisting,
                   partitions, converted, loop_attached, mounts, efi_files, rootfs, cli>>

\* Line 171: mkfs.ext4 gives the filesystem a random UUID.
MkfsExt4 ==
    /\ \E ok \in BOOLEAN :
         /\ Step("mkfs_ext4", "mkfs.ext4", ok, "tune2fs", OnTryFailure,
                 "CalledProcessError: mkfs.ext4")
         /\ fsinfo' = IF ok
                      THEN [fsinfo EXCEPT !.root_type = "ext4", !.root_uuid = "random"]
                      ELSE fsinfo
    /\ UNCHANGED <<inputs, calls, os_loader, out_tree, image_exists, image_size, preexisting,
                   partitions, converted, loop_attached, mounts, efi_files, rootfs, cli>>

\* Line 173.
Tune2fs ==
    /\ \E ok \in BOOLEAN :
         /\ Step("tune2fs", "tune2fs", ok, "efi_mkdtemp", OnTryFailure,
                 "CalledProcessError: tune2fs")
         /\ fsinfo' = IF ok THEN [fsinfo EXCEPT !.root_uuid = EXT4_UUID] ELSE fsinfo
    /\ UNCHANGED <<inputs, calls, os_loader, out_tree, image_exists, image_size, preexisting,
                   partitions, converted, loop_attached, mounts, efi_files, rootfs, cli>>

\* --------------------------------------------------------- fill_boot_partition
\* The two file names the wrong way round.
EfiFile_Swapped(a) ==
    IF a = "x86_64" THEN "BOOTAA64.EFI"
    ELSE IF a = "arm64" THEN "BOOTX64.EFI"
    ELSE None

\* Lines 84-89: the file name under EFI/Boot, None for an unsupported arch.
EfiFile(a) ==
    IF a = "x86_64" THEN "BOOTX64.EFI"
    ELSE IF a = "arm64" THEN "BOOTAA64.EFI"
    ELSE None

\* fill_boot_partition without its finally clause.
OnBootFailure_NoFinally == "detach"

\* Where control goes when a statement of the try body (lines 80-93) raises:
\* the finally clause of lines 94-97.
OnBootFailure == "efi_umount"

\* Line 76.
EfiMkdtemp ==
    /\ \E ok \in BOOLEAN :
         /\ Step("efi_mkdtemp", "mkdtemp efi", ok, "efi_mount", OnTryFailure,
                 "OSError: mkdtemp efi_mount_")
         /\ mount_dirs' = IF ok THEN mount_dirs \cup {"efi"} ELSE mount_dirs
    /\ UNCHANGED <<inputs, calls, os_loader, out_tree, disk, loop_attached, mounted,
                   efi_files, rootfs, cli>>

\* Line 78: the mount is made before the try statement is entered.
EfiMount ==
    /\ \E ok \in BOOLEAN :
         /\ Step("efi_mount", "mount efi", ok, "efi_makedirs", OnTryFailure,
                 "CalledProcessError: mount efi")
         /\ mounted' = IF ok THEN mounted \cup {"efi"} ELSE mounted
    /\ UNCHANGED <<inputs, calls, os_loader, out_tree, disk, loop_attached, mount_dirs,
                   efi_files, rootfs, cli>>

\* Lines 80-82.
EfiMakedirs ==
    /\ \E ok \in BOOLEAN :
         /\ Step("efi_makedirs", "makedirs EFI/Boot", ok, "efi_select", OnBootFailure,
                 "OSError: makedirs EFI/Boot")
         /\ efi_files' = IF ok THEN efi_files \cup {<<"EFI", "Boot">>} ELSE efi_files
    /\ UNCHANGED <<inputs, calls, os_loader, out_tree, disk, loop_attached, mounts,
                   rootfs, cli>>

\* Lines 84-89.
EfiSelect ==
    /\ Step("efi_select", "select efi_file", EfiFile(arch) /= None, "efi_copy",
            OnBootFailure, "ValueError: Unsupported architecture")
    /\ UNCHANGED <<inputs, calls, os_loader, out_tree, disk, loop_attached, mounts,
                   efi_files, rootfs, cli>>

\* Lines 91-93.
EfiCopy ==
    /\ \E ok \in BOOLEAN :
         /\ Step("efi_copy", "copy2 loader", ok, "efi_umount", OnBootFailure,
                 "OSError: copy2 loader")
         /\ efi_files' = IF ok
                         THEN efi_files \cup {<<"EFI", "Boot", EfiFile(arch)>>}
                         ELSE efi_files
    /\ UNCHANGED <<inputs, calls, os_loader, out_tree, disk, loop_attached, mounts,
                   rootfs, cli>>

\* The EFI umount with check=True left out: its failure goes unnoticed and
\* fill_boot_partition returns as if the partition had been released.
EfiUmount_NoCheck ==
    /\ \E ok \in BOOLEAN :
         /\ pc = "efi_umount"
         /\ trace' = Log("umount efi", ok)
         /\ pc' = "efi_rmdir"
         /\ exc' = exc
         /\ mounted' = IF ok THEN mounted \ {"efi"} ELSE mounted
    /\ UNCHANGED <<inputs, calls, os_loader, out_tree, disk, loop_attached, mount_dirs,
                   efi_files, rootfs, cli>>

\* Lines 94-96: the finally clause; a failing umount raises out of it, over
\* whatever exception was in flight, and line 97 is skipped.
EfiUmount ==
    /\ \E ok \in BOOLEAN :
         /\ Step("efi_umount", "umount efi", ok, "efi_rmdir", OnTryFailure,
                 "CalledProcessError: umount efi")
         /\ mounted' = IF ok THEN mounted \ {"efi"} ELSE mounted
    /\ UNCHANGED <<inputs, calls, os_loader, out_tree, disk, loop_attached, mount_dirs,
                   efi_files, rootfs, cli>>

\* Line 97, then the end of the finally clause: an exception in flight is
\* re-raised, otherwise fill_boot_partition returns and line 179 is next.
EfiRmdir ==
    /\ pc = "efi_rmdir"
    /\ trace' = Log("rmdir efi", TRUE)
    /\ mount_dirs' = mount_dirs \ {"efi"}
    /\ pc' = IF exc = <<>> THEN "root_mkdtemp" ELSE OnTryFailure
    /\ UNCHANGED <<inputs, calls, os_loader, out_tree, disk, loop_attached, mounted,
                   efi_files, rootfs, exc, cli>>

\* --------------------------------------------------------- fill_ext4_partition
\* The archives the layers directory may hold: paths relative to it, each
\* component a sequence of the words of its name.
LayerUniverse ==
    { << <<"a", "noarch">> >>,
      << <<"b", "x86_64">> >>,
      << <<"b", "arm64">> >>,
      << <<"arm64">>, <<"c", "x86_64">> >> }

\* Collation of the words, as Python orders the strings.
WordRank(w) ==
    CASE w = "a" -> 1 [] w = "arm64" -> 2 [] w = "b" -> 3 [] w = "c" -> 4
      [] w = "noarch" -> 5 [] w = "x86_64" -> 6

\* Path comparison is component by component: a component boundary (0) sorts
\* before any word.
RECURSIVE PathKey(_)
PathKey(path) ==
    IF path = <<>> THEN <<>>
    ELSE [i \in 1..Len(Head(path)) |-> WordRank(Head(path)[i])] \o <<0>>
         \o PathKey(Tail(path))

RECURSIVE LexLess(_, _)
LexLess(s, t) ==
    IF s = <<>> THEN t /= <<>>
    ELSE IF t = <<>> THEN FALSE
    ELSE IF s[1] /= t[1] THEN s[1] < t[1]
    ELSE LexLess(Tail(s), Tail(t))

\* sorted(Path(layers_dir).rglob("*.cpio.gz")), line 113.
RECURSIVE sorted(_)
sorted(S) ==
    IF S = {} THEN <<>>
    ELSE LET m == CHOOSE x \in S : \A y \in S \ {x} : LexLess(PathKey(x), PathKey(y))
         IN <<m>> \o sorted(S \ {m})

\* layer.name: the last component.
LayerName(layer) == layer[Len(layer)]

\* The test made on the whole path (str(layer)) instead of layer.name.
Selected_WholePath(layer, a) ==
    \E i \in 1..Len(layer) : "noarch" \in Range(layer[i]) \/ a \in Range(layer[i])

\* Line 115, negated: the archive is kept.
Selected(layer, a) ==
    "noarch" \in Range(LayerName(layer)) \/ a \in Range(LayerName(layer))

\* fill_ext4_partition without its finally clause.
OnRootFailure_NoFinally == "detach"

\* Where control goes when a statement of the try body (lines 109-124) raises:
\* the finally clause of lines 125-128.
OnRootFailure == "root_umount"

\* Line 105.
RootMkdtemp ==
    /\ \E ok \in BOOLEAN :
         /\ Step("root_mkdtemp", "mkdtemp root", ok, "root_mount", OnTryFailure,
                 "OSError: mkdtemp root_mount_")
         /\ mount_dirs' = IF ok THEN mount_dirs \cup {"root"} ELSE mount_dirs
    /\ UNCHANGED <<inputs, calls, os_loader, out_tree, disk, loop_attached, mounted,
                   efi_files, rootfs, cli>>

\* Line 107: the mount is made before the try statement is entered.
RootMount ==
    /\ \E ok \in BOOLEAN :
         /\ Step("root_mount", "mount root", ok, "root_scan", OnTryFailure,
                 "CalledProcessError: mount root")
         /\ mounted' = IF ok THEN mounted \cup {"root"} ELSE mounted
    /\ UNCHANGED <<inputs, calls, os_loader, out_tree, disk, loop_attached, mount_dirs,
                   efi_files, rootfs, cli>>

\* Lines 109-113 and 123-124: look for the layers directory and list it.
RootScan ==
    /\ pc = "root_scan"
    /\ \/ /\ layers_dir' = "missing"
          /\ pc' = "root_umount"
          /\ trace' = Log("scan layers", TRUE)
          /\ UNCHANGED <<layers_seen, layers, found>>
       \/ \E S \in SUBSET LayerUniverse :
            /\ layers_dir' = "present"
            /\ layers_seen' = S
            /\ layers' = sorted(S)
            /\ found' = FALSE
            /\ pc' = "root_loop"
            /\ trace' = Log("scan layers", TRUE)
    /\ UNCHANGED <<inputs, calls, os_loader, out_tree, disk, loop_attached, mounts,
                   efi_files, extracted, exc, cli>>

\* Lines 114-117: an archive that is neither noarch nor of this arch is skipped.
RootSkip ==
    /\ pc = "root_loop"
    /\ layers /= <<>>
    /\ ~Selected(Head(layers), arch)
    /\ layers' = Tail(layers)
    /\ UNCHANGED <<pc, inputs, calls, os_loader, out_tree, disk, loop_attached, mounts,
                   efi_files, layers_dir, layers_seen, found, extracted, exc, cli,
                   trace>>

\* Lines 118-120: gunzip -c layer | cpio -idm in the mounted root.
RootExtract ==
    /\ layers /= <<>>
    /\ Selected(Head(layers), arch)
    /\ \E ok \in BOOLEAN :
         /\ Step("root_loop", "extract layer", ok, "root_loop", OnRootFailure,
                 "CalledProcessError: gunzip | cpio")
         /\ extracted' = IF ok THEN Append(extracted, Head(layers)) ELSE extracted
    /\ found' = TRUE
    /\ layers' = Tail(layers)
    /\ UNCHANGED <<inputs, calls, os_loader, out_tree, disk, loop_attached, mounts,
                   efi_files, layers_dir, layers_seen, cli>>

\* The loop end treating "nothing extracted" as an error.
RootLoopEnd_NotFoundFatal ==
    /\ pc = "root_loop"
    /\ layers = <<>>
    /\ pc' = "root_umount"
    /\ exc' = IF found THEN exc ELSE Raise("FileNotFoundError: no cpio.gz files", exc)
    /\ UNCHANGED <<inputs, calls, os_loader, out_tree, disk, loop_attached, mounts,
                   efi_files, rootfs, cli, trace>>

\* Lines 121-122: the loop is over.
RootLoopEnd ==
    /\ pc = "root_loop"
    /\ layers = <<>>
    /\ pc' = "root_umount"
    /\ UNCHANGED <<inputs, calls, os_loader, out_tree, disk, loop_attached, mounts,
                   efi_files, rootfs, exc, cli, trace>>

\* Lines 125-127: the finally clause; a failing umount raises out of it, over
\* whatever exception was in flight, and line 128 is skipped.
RootUmount ==
    /\ \E ok \in BOOLEAN :
         /\ Step("root_umount", "umount root", ok, "root_rmdir", OnTryFailure,
                 "CalledProcessError: umount root")
         /\ mounted' = IF ok THEN mounted \ {"root"} ELSE mounted
    /\ UNCHANGED <<inputs, calls, os_loader, out_tree, disk, loop_attached, mount_dirs,
                   efi_files, rootfs, cli>>

\* Line 128, then the end of the finally clause.  Whether fill_ext4_partition
\* returns or re-raises, the finally clause of new_efi_boot_disk is next.
RootRmdir ==
    /\ pc = "root_rmdir"
    /\ trace' = Log("rmdir root", TRUE)
    /\ mount_dirs' = mount_dirs \ {"root"}
    /\ pc' = "detach"
    /\ UNCHANGED <<inputs, calls, os_loader, out_tree, disk, loop_attached, mounted,
                   efi_files, rootfs, exc, cli>>

\* ----------------------------------------------- new_efi_boot_disk, continued
\* The finally clause also removing the image of a failed build.
Detach_RemovesImage ==
    /\ pc = "detach"
    /\ \E ok \in BOOLEAN :
         /\ trace' = Log("losetup -d", ok)
         /\ IF ok
            THEN /\ loop_attached' = FALSE
                 /\ exc' = exc
                 /\ pc' = IF exc = <<>> THEN "convert" ELSE Caught
            ELSE /\ UNCHANGED loop_attached
                 /\ exc' = Raise("CalledProcessError: losetup -d", exc)
                 /\ pc' = Caught
    /\ image_exists' = (exc = <<>>)
    /\ UNCHANGED <<inputs, calls, os_loader, out_tree, image_size, preexisting, partitions,
                   fsinfo, converted, mounts, efi_files, rootfs, cli>>

\* Lines 181-183: the finally clause.  A failing losetup -d raises out of it,
\* over whatever exception was in flight; otherwise an exception in flight is
\* re-raised and, without one, line 185 is next.
Detach ==
    /\ pc = "detach"
    /\ \E ok \in BOOLEAN :
         /\ trace' = Log("losetup -d", ok)
         /\ IF ok
            THEN /\ loop_attached' = FALSE
                 /\ exc' = exc
                 /\ pc' = IF exc = <<>> THEN "convert" ELSE Caught
            ELSE /\ UNCHANGED loop_attached
                 /\ exc' = Raise("CalledProcessError: losetup -d", exc)
                 /\ pc' = Caught
    /\ UNCHANGED <<inputs, calls, os_loader, out_tree, disk, mounts, efi_files, rootfs, cli>>

\* `or` in place of `and`.
ConvertRequested_Either(ti, tf) == Truthy(ti) \/ Truthy(tf)

\* Line 187.
ConvertRequested(ti, tf) == Truthy(ti) /\ Truthy(tf)

\* A failed conversion that also removes the raw image.
Convert_RemovesRaw ==
    /\ pc = "convert"
    /\ IF ConvertRequested(target_image, target_format)
       THEN \E ok \in BOOLEAN :
              /\ trace' = Log("qemu-img convert", ok)
              /\ converted' = ok
              /\ image_exists' = ok
              /\ IF ok
                 THEN pc' = Returned /\ exc' = exc
                 ELSE /\ pc' = Caught
                      /\ exc' = Raise("RuntimeError: Image conversion failed",
                                      Raise("CalledProcessError: qemu-img", exc))
       ELSE /\ pc' = Returned
            /\ UNCHANGED <<converted, exc, trace, image_exists>>
    /\ UNCHANGED <<inputs, calls, os_loader, out_tree, image_size, preexisting,
                   partitions, fsinfo, loop_attached, mounts, efi_files, rootfs, cli>>

\* Lines 187-197.
Convert ==
    /\ pc = "convert"
    /\ IF ConvertRequested(target_image, target_format)
       THEN \E ok \in BOOLEAN :
              /\ trace' = Log("qemu-img convert", ok)
              /\ converted' = ok
              /\ IF ok
                 THEN pc' = Returned /\ exc' = exc
                 ELSE /\ pc' = Caught
                      /\ exc' = Raise("RuntimeError: Image conversion failed",
                                      Raise("CalledProcessError: qemu-img", exc))
       ELSE /\ pc' = Returned
            /\ UNCHANGED <<converted, exc, trace>>
    /\ UNCHANGED <<inputs, calls, os_loader, out_tree, image_exists, image_size, preexisting,
                   partitions, fsinfo, loop_attached, mounts, efi_files, rootfs, cli>>

\* --------------------------------------------------------------- second call
\* A caller that saw new_efi_boot_disk raise calls it again with the same
\* arguments (line 131).  Nothing in lines 131-197 removes the file at
\* image_path, so the new call finds whatever the earlier one left there.
\* The new call has no exception in flight and has executed no step; the
\* variables that record what a call did (its fallocate request, its loop
\* device, its partitions, mounts and extracted layers) start afresh, and
\* `prev` keeps how the earlier call ended.
Retry ==
    /\ pc = "raised"
    /\ invocation < MaxInvocations
    /\ invocation' = invocation + 1
    /\ prev' = [trace |-> trace, exc |-> exc, image_exists |-> image_exists]
    /\ pc' = "check_sizes"
    /\ preexisting' = image_exists
    /\ image_size' = <<>>
    /\ loop_attached' = FALSE
    /\ partitions' = <<>>
    /\ fsinfo' = NoFsInfo
    /\ mount_dirs' = {}
    /\ mounted' = {}
    /\ efi_files' = {}
    /\ layers_dir' = "unknown"
    /\ layers_seen' = {}
    /\ layers' = <<>>
    /\ found' = FALSE
    /\ extracted' = <<>>
    /\ converted' = FALSE
    /\ exc' = <<>>
    /\ trace' = <<>>
    /\ UNCHANGED <<inputs, os_loader, out_tree, image_exists, cli>>

\* ---------------------------------------------------------------------- Next
Next ==
    \/ ParseArgs \/ SelectLoader \/ MainExcept \/ MainEnd
    \/ CheckSizes \/ CheckPath \/ Allocate \/ Attach
    \/ Mklabel \/ MkpartEfi \/ SetBoot \/ SetEsp \/ MkpartRoot
    \/ CheckPart1 \/ CheckPart2
    \/ MkfsFat \/ MkfsExt4 \/ Tune2fs
    \/ EfiMkdtemp \/ EfiMount \/ EfiMakedirs \/ EfiSelect \/ EfiCopy
    \/ EfiUmount \/ EfiRmdir
    \/ RootMkdtemp \/ RootMount \/ RootScan \/ RootSkip \/ RootExtract
    \/ RootLoopEnd \/ RootUmount \/ RootRmdir
    \/ Detach \/ Convert
    \/ Retry

Spec == Init /\ [][Next]_vars

\* ============================================================== properties
Ran(op) == \E i \in 1..Len(trace) : trace[i].op = op
Count(op) == Cardinality({i \in 1..Len(trace) : trace[i].op = op})
Succeeded(op) == \E i \in 1..Len(trace) : trace[i].op = op /\ trace[i].ok
Failed(op) == \E i \in 1..Len(trace) : trace[i].op = op /\ ~trace[i].ok

\* new_efi_boot_disk was entered / has been left.
Called == Ran("check_sizes")
BuildEnded == pc \in {"main_except", "main_end", "exited", "returned", "raised"}

\* Steps that give a resource back.
ReleaseOps == {"umount efi", "rmdir efi", "umount root", "rmdir root", "losetup -d"}
ReleaseErrors == {"CalledProcessError: umount efi", "CalledProcessError: umount root",
                  "CalledProcessError: losetup -d"}

\* No step of new_efi_boot_disk that touches the file system or runs a tool ran.
NoIo ==
    \A i \in 1..Len(trace) :
        trace[i].op \in {"parse_args", "get_os_loaders", "check_sizes", "check_path"}

\* C1: losetup -d is attempted exactly once in every run whose loop attach
\* succeeded, whichever later step failed, never twice, and not at all when the
\* allocation or the attach failed.
C1_DetachExactlyOnce ==
    /\ Count("losetup -d") <= 1
    /\ (~Succeeded("losetup") => Count("losetup -d") = 0)
    /\ (BuildEnded /\ Succeeded("losetup") => Count("losetup -d") = 1)

\* A run left after the EFI unmount failed, with the loop device attached before.
C1_Witness ==
    /\ BuildEnded
    /\ Succeeded("losetup")
    /\ Failed("umount efi")
    /\ Count("losetup -d") = 1

\* The positions inside each stage from its mkdtemp on.
EfiStagePcs == {"efi_mount", "efi_makedirs", "efi_select", "efi_copy", "efi_umount",
                "efi_rmdir"}
RootStagePcs == {"root_mount", "root_scan", "root_loop", "root_umount", "root_rmdir"}

\* C2: a temporary mount directory exists, and is mounted, only while the stage
\* that made it is running: it is unmounted and removed once the stage is left.
C2_MountDirsReleased ==
    /\ (pc \notin EfiStagePcs => "efi" \notin (mount_dirs \cup mounted))
    /\ (pc \notin RootStagePcs => "root" \notin (mount_dirs \cup mounted))

\* C3: a failing release step never takes the place of the error that was
\* already propagating.
C3_ReleaseNeverMasks ==
    Len(exc) > 1 => exc[1] \notin ReleaseErrors

\* new_efi_boot_disk ran and returned without an exception.
BuildSucceeded == Called /\ BuildEnded /\ exc = <<>>

\* C4: the process ends with status 0 exactly when the build succeeded, and
\* every failure has logged a diagnostic.
C4_ExitStatus ==
    pc = "exited" =>
        /\ (exit_status = 0 <=> BuildSucceeded)
        /\ (~BuildSucceeded => diagnostics /= <<>>)

\* C5: sizes with disk_size_mib <= efi_size_mib + 1 are refused with the size
\* error before any I/O; any other pair passes the size check.
C5_SizeCheck ==
    Called /\ pc /= "check_sizes" =>
        IF disk_size_mib <= efi_size_mib + 1
        THEN /\ Failed("check_sizes")
             /\ exc /= <<>>
             /\ exc[1] = "ValueError: Disk size must be greater than EFI size plus 1 MiB"
             /\ NoIo
             /\ ~Ran("check_path")
             /\ image_exists = preexisting
             /\ image_size = <<>>
             /\ ~loop_attached
             /\ mount_dirs = {} /\ mounted = {}
        ELSE Succeeded("check_sizes")

\* The smallest refused pair that is one MiB short, after the refusal.
C5_Witness ==
    /\ disk_size_mib = efi_size_mib + 1
    /\ Failed("check_sizes")
    /\ BuildEnded

\* C6: with valid sizes and a file already at image_path, the build ends at
\* the already-exists error: the file is left as it was, no loop device is
\* attached and no later step runs.
C6_ExistingPath ==
    Called /\ preexisting /\ ~(disk_size_mib <= efi_size_mib + 1)
           /\ pc \notin {"check_sizes", "check_path"} =>
        /\ Failed("check_path")
        /\ exc /= <<>>
        /\ exc[1] = "FileExistsError: Disk image already exists"
        /\ NoIo
        /\ image_exists
        /\ image_size = <<>>
        /\ ~loop_attached
        /\ mount_dirs = {} /\ mounted = {}

\* A build left at the already-exists error.
C6_Witness ==
    /\ preexisting
    /\ Failed("check_path")
    /\ BuildEnded

\* C7: with an arch other than x86_64 / arm64, new_efi_boot_disk touches no
\* resource: no image file, no loop device, no mount.
C7_ArchRejectedEarly ==
    Called /\ arch \notin ArchChoices =>
        /\ NoIo
        /\ image_exists = preexisting
        /\ ~loop_attached
        /\ mounted = {}

\* The stage a step belongs to: 0 before Allocate, then Allocate .. Convert.
StageSteps ==
    << {"fallocate"},
       {"losetup"},
       {"parted mklabel", "parted mkpart fat32", "parted set boot", "parted set esp",
        "parted mkpart ext4", "exists p1", "exists p2"},
       {"mkfs.fat", "mkfs.ext4", "tune2fs"},
       {"mkdtemp efi", "mount efi", "makedirs EFI/Boot", "select efi_file",
        "copy2 loader", "umount efi", "rmdir efi"},
       {"mkdtemp root", "mount root", "scan layers", "extract layer", "umount root",
        "rmdir root"},
       {"losetup -d"},
       {"qemu-img convert"} >>
StageTable ==
    [op \in UNION Range(StageSteps) |-> CHOOSE k \in 1..8 : op \in StageSteps[k]]
    @@ [op \in {"parse_args", "get_os_loaders", "check_sizes", "check_path"} |-> 0]
StageOf(op) == StageTable[op]

FirstOp == <<"fallocate", "losetup", "parted mklabel", "mkfs.fat", "mkdtemp efi",
             "mkdtemp root", "losetup -d", "qemu-img convert">>
LastOp == <<"fallocate", "losetup", "exists p2", "tune2fs", "rmdir efi",
            "rmdir root", "losetup -d", "qemu-img convert">>

\* C8: the steps run in stage order; a stage other than Detach starts only
\* when every earlier stage ran to its last step and nothing failed before;
\* after a failed step only release steps run.
C8_StageOrder ==
    \A j \in 1..Len(trace) :
        /\ j > 1 => StageOf(trace[j - 1].op) <= StageOf(trace[j].op)
        /\ ~trace[j].ok => \A n \in (j + 1)..Len(trace) : trace[n].op \in ReleaseOps
        /\ \A k \in {2, 3, 4, 5, 6, 8} :
             trace[j].op = FirstOp[k] =>
                 /\ \A i \in 1..(j - 1) : trace[i].ok
                 /\ \A m \in 1..(k - 1) :
                      \E i \in 1..(j - 1) : trace[i].op = LastOp[m]

\* A run whose loader copy failed and that has been left.
C8_Witness ==
    /\ BuildEnded
    /\ Failed("copy2 loader")
    /\ Ran("umount efi")
    /\ Ran("losetup -d")

\* C9: every partition mount the build made has had its unmount attempted
\* before losetup -d is attempted, and no mount is made after that attempt.
C9_ReleaseOrder ==
    \A j \in 1..Len(trace) :
        trace[j].op = "losetup -d" =>
            \A i \in 1..Len(trace) :
                /\ (trace[i].op = "mount efi" /\ trace[i].ok =>
                        /\ i < j
                        /\ \E k \in (i + 1)..(j - 1) : trace[k].op = "umount efi")
                /\ (trace[i].op = "mount root" /\ trace[i].ok =>
                        /\ i < j
                        /\ \E k \in (i + 1)..(j - 1) : trace[k].op = "umount root")

\* Detach attempted after a layer extraction failed under a live root mount.
C9_Witness ==
    /\ Ran("losetup -d")
    /\ Succeeded("mount efi")
    /\ Succeeded("mount root")
    /\ Failed("extract layer")

\* C10: qemu-img convert runs only with both target_image and target_format
\* given, after a successful losetup -d, with the loop device no longer
\* attached and with no failed step before it.
C10_ConvertAfterDetach ==
    /\ \A j \in 1..Len(trace) :
         trace[j].op = "qemu-img convert" =>
             /\ target_image \notin {None, ""}
             /\ target_format \notin {None, ""}
             /\ \A i \in 1..(j - 1) : trace[i].ok
             /\ \E i \in 1..(j - 1) : trace[i].op = "losetup -d" /\ trace[i].ok
             /\ ~loop_attached
    /\ (pc = "convert" => ~loop_attached /\ Succeeded("losetup -d"))
    /\ (BuildEnded /\ ~(target_image \notin {None, ""} /\ target_format \notin {None, ""})
            => ~Ran("qemu-img convert"))

\* A build that converted its image and has been left.
C10_Witness ==
    /\ Succeeded("qemu-img convert")
    /\ BuildEnded

\* C11: at most one loop device is attached by the build and at most one
\* partition mount is live at any time; the root partition is never mounted
\* while the EFI mount is live, also after a failed EFI unmount.
C11_SingleFlight ==
    /\ Count("losetup") <= 1
    /\ Cardinality(mounted) <= 1
    /\ (pc \in RootStagePcs \cup {"root_mkdtemp"} => "efi" \notin mounted)
    /\ (Failed("umount efi") => ~Ran("mount root") /\ "root" \notin mounted)

\* A build left with the EFI partition still mounted because its umount failed.
C11_Witness ==
    /\ BuildEnded
    /\ Failed("umount efi")
    /\ mounted = {"efi"}

\* The archives of LayerUniverse in ascending order of their path strings
\* (a-noarch.cpio.gz < arm64/c-x86_64.cpio.gz < b-arm64.cpio.gz < b-x86_64.cpio.gz).
PathOrder ==
    << << <<"a", "noarch">> >>,
       << <<"arm64">>, <<"c", "x86_64">> >>,
       << <<"b", "arm64">> >>,
       << <<"b", "x86_64">> >> >>

\* The archives whose file name contains "noarch" or the architecture.
NameMatches(a) ==
    IF a = "arm64"
    THEN { << <<"a", "noarch">> >>, << <<"b", "arm64">> >> }
    ELSE IF a = "x86_64"
    THEN { << <<"a", "noarch">> >>, << <<"b", "x86_64">> >>,
           << <<"arm64">>, <<"c", "x86_64">> >> }
    ELSE { << <<"a", "noarch">> >> }

\* What a complete extraction of directory contents S for architecture a is.
RECURSIVE ExpectedFrom(_, _, _)
ExpectedFrom(i, S, a) ==
    IF i > Len(PathOrder) THEN <<>>
    ELSE (IF PathOrder[i] \in S \cap NameMatches(a) THEN <<PathOrder[i]>> ELSE <<>>)
         \o ExpectedFrom(i + 1, S, a)
Expected == ExpectedFrom(1, layers_seen, arch)

\* The extraction loop ran to its end.
LoopDone ==
    /\ layers_dir = "present"
    /\ pc \notin {"root_scan", "root_loop"}
    /\ ~Failed("extract layer")

\* C12: the archives extracted are exactly those of the directory whose file
\* name contains "noarch" or the architecture, each once, in ascending path
\* order: a function of the directory contents and the architecture alone.
C12_LayerSelection ==
    extracted /= <<>> \/ LoopDone =>
        LET e == Expected
        IN /\ Len(extracted) <= Len(e)
           /\ extracted = SubSeq(e, 1, Len(extracted))
           /\ (LoopDone => extracted = e)

\* a-noarch, b-x86_64 and b-arm64 built for arm64: a-noarch then b-arm64.
C12_Witness ==
    /\ arch = "arm64"
    /\ layers_seen = { << <<"a", "noarch">> >>, << <<"b", "x86_64">> >>,
                       << <<"b", "arm64">> >> }
    /\ LoopDone
    /\ extracted = << << <<"a", "noarch">> >>, << <<"b", "arm64">> >> >>

\* The number of archives extracted without error so far.
ExtractedOk ==
    Cardinality({i \in 1..Len(trace) : trace[i].op = "extract layer" /\ trace[i].ok})

\* C13: when the extraction of the k-th selected archive fails, the build
\* ends in an error; archives 1..k-1 stay extracted, no later archive is
\* extracted, and the root unmount and the loop detach are still attempted.
C13_ExtractionFailure ==
    Failed("extract layer") =>
        /\ "CalledProcessError: gunzip | cpio" \in Range(exc)
        /\ \A i \in 1..Len(trace) :
             trace[i].op = "extract layer" /\ ~trace[i].ok =>
                 \A n \in (i + 1)..Len(trace) : trace[n].op \in ReleaseOps
        /\ LET e == Expected
           IN ExtractedOk < Len(e) /\ extracted = SubSeq(e, 1, ExtractedOk)
        /\ (pc /= "root_umount" => Ran("umount root"))
        /\ (BuildEnded => Ran("losetup -d"))

\* The second of three selected archives failed and the build has been left.
C13_Witness ==
    /\ BuildEnded
    /\ Failed("extract layer")
    /\ Len(Expected) = 3
    /\ Len(extracted) = 1

\* The layers directory is missing or holds no archive for this architecture.
NoLayers ==
    \/ layers_dir = "missing"
    \/ layers_dir = "present" /\ layers_seen \cap NameMatches(arch) = {}

\* C14: a missing layers directory, or one without a matching archive, is
\* not an error: nothing is extracted, the root unmount and the removal of the
\* mount directory follow, then the loop detach, and with no step failing the
\* build returns normally with an empty root filesystem.
C14_NoLayersNonFatal ==
    NoLayers =>
        /\ ~Ran("extract layer")
        /\ extracted = <<>>
        /\ (pc \in {"root_loop", "root_umount"} => exc = <<>>)
        /\ (pc \notin {"root_loop", "root_umount"} => Ran("umount root"))
        /\ (Succeeded("umount root") /\ pc /= "root_rmdir" =>
                /\ Ran("rmdir root")
                /\ "root" \notin (mount_dirs \cup mounted))
        /\ (BuildEnded => Ran("losetup -d"))
        /\ (BuildEnded /\ (\A i \in 1..Len(trace) : trace[i].ok) =>
                exc = <<>> /\ pc \in {"main_end", "exited", "returned"})

\* A build that returned normally after finding archives, none of them for
\* its architecture.
C14_Witness ==
    /\ pc = "returned"
    /\ exc = <<>>
    /\ layers_dir = "present"
    /\ layers_seen /= {}
    /\ ~found
    /\ extracted = <<>>

\* The files written below EFI/Boot.
LoaderFiles == {f \in efi_files : Len(f) = 3}

\* C15: the loader is written to exactly one file under EFI/Boot, BOOTAA64.EFI
\* for arm64 and BOOTX64.EFI for x86_64; for any other arch nothing is written
\* and the unsupported-architecture error is raised.
C15_LoaderFileName ==
    /\ (arch = "arm64" =>
            LoaderFiles = IF Succeeded("copy2 loader")
                          THEN {<<"EFI", "Boot", "BOOTAA64.EFI">>} ELSE {})
    /\ (arch = "x86_64" =>
            LoaderFiles = IF Succeeded("copy2 loader")
                          THEN {<<"EFI", "Boot", "BOOTX64.EFI">>} ELSE {})
    /\ (arch \notin {"arm64", "x86_64"} =>
            /\ LoaderFiles = {}
            /\ ~Ran("copy2 loader")
            /\ (Ran("select efi_file") =>
                    /\ Failed("select efi_file")
                    /\ "ValueError: Unsupported architecture" \in Range(exc)))

\* The loader installed for arm64.
C15_Witness ==
    /\ arch = "arm64"
    /\ Succeeded("copy2 loader")
    /\ <<"EFI", "Boot", "BOOTAA64.EFI">> \in efi_files

\* C16: the image is allocated with disk_size_mib MiB, the EFI partition is
\* requested as [1 MiB, (1 + efi_size_mib) MiB] and the root partition as
\* [(1 + efi_size_mib) MiB, 100%]: they meet at that boundary, which lies
\* strictly before the end of the disk.
C16_PartitionLayout ==
    /\ (Succeeded("fallocate") => image_size = <<disk_size_mib, "MiB">>)
    /\ Len(partitions) <= 2
    /\ (Succeeded("parted mkpart fat32") => Len(partitions) >= 1)
    /\ (Succeeded("parted mkpart ext4") => Len(partitions) = 2)
    /\ (Len(partitions) >= 1 =>
            /\ partitions[1] = [fs |-> "fat32", start |-> <<1, "MiB">>,
                                end |-> <<1 + efi_size_mib, "MiB">>]
            /\ partitions[1].end[1] < image_size[1])
    /\ (Len(partitions) = 2 =>
            /\ partitions[2] = [fs |-> "ext4", start |-> <<1 + efi_size_mib, "MiB">>,
                                end |-> <<100, "%">>]
            /\ partitions[2].start = partitions[1].end)

\* Disk 3, EFI 1: EFI [1, 2] and root [2, 100%].
C16_Witness ==
    /\ disk_size_mib = 3
    /\ efi_size_mib = 1
    /\ Len(partitions) = 2
    /\ partitions[1].end = <<2, "MiB">>
    /\ partitions[2].start = <<2, "MiB">>

\* C17: once fallocate has created the image file, it stays at image_path
\* whatever fails afterwards.
C17_ImageKept ==
    Succeeded("fallocate") => image_exists /\ image_size = <<disk_size_mib, "MiB">>

\* A build that failed after the allocation and has been left.
C17_Witness ==
    /\ BuildEnded
    /\ Succeeded("fallocate")
    /\ exc /= <<>>
    /\ image_exists

\* C18: when only release steps (an unmount, the loop detach) fail, the build
\* still runs its remaining stages and ends without an error.
C18_ReleaseFailureNonFatal ==
    ( /\ Called
      /\ BuildEnded
      /\ \A i \in 1..Len(trace) :
           ~trace[i].ok => trace[i].op \in {"umount efi", "umount root", "losetup -d"} )
    => /\ exc = <<>>
       /\ Ran("mount root")
       /\ Ran("losetup -d")

\* Both partitions carry their filesystem and fixed identifier.
FormatDone ==
    fsinfo = [efi_type |-> "fat32", efi_id |-> "DEADBEEF", root_type |-> "ext4",
              root_uuid |-> "F59E7ACA-1868-4E4D-B34D-9087DDA43174"]

\* C19: a successful build has formatted the EFI partition as FAT32 with volume
\* id DEADBEEF and the root partition as ext4 with the fixed UUID set
\* afterwards; tune2fs never runs before mkfs.ext4 succeeded, and no partition
\* is mounted before both identifiers are in place.
C19_FixedIdentifiers ==
    /\ (BuildSucceeded => FormatDone)
    /\ (mounted /= {} => FormatDone)
    /\ \A j \in 1..Len(trace) :
         /\ trace[j].op = "tune2fs" =>
                \E i \in 1..(j - 1) : trace[i].op = "mkfs.ext4" /\ trace[i].ok
         /\ trace[j].op \in {"mount efi", "mount root"} =>
                /\ \E i \in 1..(j - 1) : trace[i].op = "mkfs.fat" /\ trace[i].ok
                /\ \E i \in 1..(j - 1) : trace[i].op = "tune2fs" /\ trace[i].ok

\* A build that returned normally with both identifiers set.
C19_Witness ==
    /\ pc = "returned"
    /\ exc = <<>>
    /\ FormatDone
    /\ Succeeded("mount root")

\* The directories under out/ that hold the loader file of this architecture.
LoaderDirs ==
    {i \in 1..Len(out_tree) :
        (IF arch = "x86_64" THEN <<"bzImage">> ELSE <<"Image">>) \in out_tree[i].files}

\* C20: without --os-loader the build starts only when exactly one directory
\* under out/ holds the loader file; none gives the not-found error, more than
\* one the multiple-loaders error, and in both cases new_efi_boot_disk is not
\* called and nothing is created.
C20_LoaderDiscovery ==
    Ran("get_os_loaders") =>
        /\ (Called => Cardinality(LoaderDirs) = 1)
        /\ (Cardinality(LoaderDirs) = 0 =>
                exc /= <<>> /\ exc[1] = "FileNotFoundError: OS loader not found")
        /\ (Cardinality(LoaderDirs) > 1 =>
                exc /= <<>> /\ exc[1] = "FileExistsError: Multiple OS loaders found")
        /\ (Cardinality(LoaderDirs) /= 1 =>
                image_exists = preexisting /\ ~loop_attached)

\* The allocation step of the earlier call created the image file: fallocate
\* succeeded, or it failed and left the file behind.
PrevCreated ==
    \E i \in 1..Len(prev.trace) :
        /\ prev.trace[i].op = "fallocate"
        /\ prev.trace[i].ok \/ prev.image_exists

\* C21: a build is not retryable in place.  When the earlier call failed after
\* its allocation step had created the image file, whatever step it failed at,
\* the call that follows with the same arguments passes the size check, fails
\* at the path check with the already-exists error, and runs no tool: it does
\* not allocate, does not attach a loop device, and leaves the file in place.
C21_NotRetryable ==
    invocation > 1 /\ PrevCreated /\ prev.exc /= <<>>
                   /\ pc \notin {"check_sizes", "check_path"} =>
        /\ pc = "raised"
        /\ Succeeded("check_sizes")
        /\ Failed("check_path")
        /\ exc = <<"FileExistsError: Disk image already exists">>
        /\ NoIo /\ ~Ran("fallocate") /\ ~Ran("losetup") /\ ~loop_attached
        /\ image_exists /\ image_size = <<>>

\* The earlier call got as far as the conversion, which failed; the next call
\* was rejected.
C21_Witness ==
    /\ invocation = 2
    /\ pc = "raised"
    /\ PrevCreated
    /\ prev.exc /= <<>>
    /\ prev.exc[1] = "RuntimeError: Image conversion failed"
    /\ Failed("check_path")

====
